---- MODULE Spec2Model ----
(***************************************************************************)
(* Model of src/main.js: the Actor.main body, the PuppeteerCrawler         *)
(* requestHandler / failedRequestHandler callbacks and the free function   *)
(* validateDataQuality.                                                    *)
(*                                                                         *)
(* JavaScript runs the callbacks on one thread: a callback runs without    *)
(* interruption from one await to the next, so every action below is one   *)
(* such synchronous segment.  The crawler (crawlee) is the environment: it *)
(* picks queued requests, navigates, invokes requestHandler, retries a     *)
(* request whose navigation or handler rejected (maxRequestRetries) and    *)
(* calls failedRequestHandler once the retries are used up.                *)
(* Every awaited call has two outcomes, resolved and rejected, except      *)
(* Actor.getInput(), whose result is the initial state; crawler.run() can  *)
(* reject at any moment of the crawl, and the handler runs in flight then  *)
(* go on.  The Page the handler receives is the installed puppeteer's: it  *)
(* has the method waitForTimeout or it has not, for the whole run.         *)
(* The crawler's requestHandlerTimeoutSecs is left out: no handler         *)
(* run is abandoned while it waits.  The message of a rejection is         *)
(* the environment's: one representative message stands for each kind of  *)
(* failure (the selector wait timing out, the page going away during the   *)
(* pause or the DOM read, the dataset write failing).                      *)
(*                                                                         *)
(* JavaScript objects are functions from key names to values; values that  *)
(* the code tests for truthiness carry their JavaScript type.  Numbers     *)
(* that are quotients are exact fractions <<numerator, denominator>>.      *)
(* Clock readings are abstracted: the extracted timestamp is one fixed     *)
(* non-empty string, processingTime and the error timestamp are left out   *)
(* of the records, and the latency fed to the running average is an input. *)
(***************************************************************************)
EXTENDS Bags, FiniteSets, Integers, Sequences, TLC

VARIABLES
    pc,                   \* position of the Actor.main body
    crawler,              \* the PuppeteerCrawler of main.js:46: none, constructed, running
    pendingReport,        \* the argument of the Actor.setValue call being awaited
    page,                 \* the methods of the Page objects the crawler hands to requestHandler
    input,                \* value returned by Actor.getInput()
    totalProcessed,       \* main.js:35
    successfulExtractions,\* main.js:36
    performanceMetrics,   \* main.js:40-44
    req,                  \* request queue of the crawler: per URL, position and retryCount
    pending,              \* per URL, the argument of the pushData call being awaited
    handledRequestsCount, \* crawler: requests that reached a terminal outcome
    sink,                 \* the default dataset (Actor.pushData), a bag of records
    kvStore,              \* the key-value store (Actor.setValue)
    setValueCalls,        \* number of Actor.setValue('PERFORMANCE_REPORT') calls
    obs,                  \* observer: per URL, how often each path hit the aggregator
    latencySum,           \* observer: sum of the latencies recorded on successes
    qdata,                \* argument of validateDataQuality (scorer specification)
    qscore                \* result of validateDataQuality (scorer specification)

vars == <<pc, input, totalProcessed, successfulExtractions, performanceMetrics,
          req, pending, handledRequestsCount, sink, kvStore, setValueCalls,
          obs, latencySum, crawler, pendingReport, page, qdata, qscore>>

mainVars == <<pc, input, totalProcessed, successfulExtractions, performanceMetrics,
              req, pending, handledRequestsCount, sink, kvStore, setValueCalls,
              obs, latencySum, crawler, pendingReport, page>>

(***************************************************************************)
(* Bounds                                                                  *)
(***************************************************************************)
NumUrls == 2
MaxLatency == 2
MaxCount == 1

(***************************************************************************)
(* Program constants                                                       *)
(***************************************************************************)
maxRequestRetries == 3
DefaultMaxConcurrency == 5
DefaultMaxItems == 1000
ContentCap == 5000
WordsPerMinute == 200

Missing == "undefined"

URLs == 1..NumUrls
Latencies == {1, MaxLatency}

Max(a, b) == IF a >= b THEN a ELSE b
Min(a, b) == IF a <= b THEN a ELSE b

RECURSIVE GCD(_, _)
GCD(a, b) == IF b = 0 THEN a ELSE GCD(b, a % b)

\* an exact fraction in lowest terms; d > 0
Frac(n, d) == LET g == GCD(n, d) IN IF g = 0 THEN <<n, d>> ELSE <<n \div g, d \div g>>

\* Math.ceil(n / d) for n >= 0, d > 0
Ceil(n, d) == (n + d - 1) \div d

\* Math.round of a non-negative fraction: round half up
Round(f) == (2 * f[1] + f[2]) \div (2 * f[2])


(***************************************************************************)
(* JavaScript values and objects                                           *)
(***************************************************************************)
Str(s) == [t |-> "string", s |-> s]
Num(n) == [t |-> "number", n |-> n]
Arr(a) == [t |-> "array", a |-> a]
\* a string given by the lengths of its pieces (see TextLength)
Text(x) == [t |-> "text", x |-> x]
\* the address of page u, a non-empty string
Href(u) == [t |-> "href", u |-> u]

\* A text is the sequence of the lengths of the pieces between its single
\* spaces, so text.split(' ') has Len(text) elements; the empty string is <<0>>.
RECURSIVE SumSeq(_)
SumSeq(s) == IF s = <<>> THEN 0 ELSE Head(s) + SumSeq(Tail(s))

TextLength(text) == SumSeq(text) + Len(text) - 1

\* text.substring(0, cap)
RECURSIVE Substring(_, _)
Substring(text, cap) ==
    IF Len(text) = 1 THEN <<Min(Head(text), cap)>>
    ELSE IF Head(text) >= cap THEN <<cap>>
    ELSE <<Head(text)>> \o Substring(Tail(text), cap - Head(text) - 1)

\* ToBoolean: the empty string and 0 are falsy, every array (also []) is truthy
Truthy(v) ==
    CASE v.t = "string" -> v.s # ""
      [] v.t = "text" -> TextLength(v.x) # 0
      [] v.t = "number" -> v.n # 0
      [] OTHER -> TRUE

\* v !== ''
NotEmptyString(v) ==
    CASE v.t = "string" -> v.s # ""
      [] v.t = "text" -> TextLength(v.x) # 0
      [] OTHER -> TRUE

(***************************************************************************)
(* The pages behind the URLs (what the browser has loaded)                 *)
(***************************************************************************)
Dom(u) ==
    IF u % 2 = 1
    THEN [title |-> "", body |-> <<3, 0, 2>>, anchors |-> 0, imgs |-> 1,
          headings |-> <<>>, description |-> Missing]
    ELSE [title |-> "T", body |-> <<ContentCap + 1000>>, anchors |-> 2, imgs |-> 1,
          headings |-> <<"h1", "h2">>, description |-> "d"]

FieldOrder == <<"url", "title", "content", "links", "images", "headings",
                "metaDescription", "timestamp">>

\* the function passed to page.evaluate
ExtractFields(u) ==
    LET dom == Dom(u) IN
    [url             |-> Href(u),
     title           |-> Str(dom.title),
     content         |-> Text(Substring(dom.body, ContentCap)),
     links           |-> Num(dom.anchors),
     images          |-> Num(dom.imgs),
     headings        |-> Arr(dom.headings),
     metaDescription |-> Str(IF dom.description = Missing THEN "" ELSE dom.description),
     timestamp       |-> Str("iso")]


(***************************************************************************)
(* Quality Scorer: validateDataQuality (main.js:177-187)                   *)
(***************************************************************************)
\* Object.keys(data), in insertion order
Keys(data) == SelectSeq(FieldOrder, LAMBDA k : k \in DOMAIN data)

IsFilled(v) == Truthy(v) /\ NotEmptyString(v)

\* IsMissing with a defect: only the empty string counts as missing
IsMissingEmptyStringOnly(v) == ~NotEmptyString(v)

IsMissing(v) == ~Truthy(v) \/ ~NotEmptyString(v)

validateDataQuality(data) ==
    LET fields == Keys(data)
        filledFields == SelectSeq(fields, LAMBDA key : IsFilled(data[key]))
    IN  [overall       |-> <<Len(filledFields), Len(fields)>>,
         completeness  |-> Len(filledFields),
         totalFields   |-> Len(fields),
         missingFields |-> SelectSeq(fields, LAMBDA key : IsMissing(data[key]))]

(***************************************************************************)
(* Input Configuration (main.js:16-25)                                     *)
(***************************************************************************)
\* Actor.getInput() resolves to null or to an object; an object is a function
\* from the keys it has to their values
EmptyObject == [k \in {} |-> k]

Opt(key, values) == {EmptyObject} \cup {key :> v : v \in values}

StartUrlLists == {[i \in 1..n |-> i] : n \in 0..NumUrls}

\* the optional keys: each combination of the two toggles once, under the
\* default ceilings, one page at a time, and one page in all
Settings ==
    {EmptyObject,
     ("maxConcurrency" :> 2) @@ ("enableAnalytics" :> FALSE)
        @@ ("dataQualityCheck" :> FALSE),
     ("maxConcurrency" :> 1) @@ ("dataQualityCheck" :> FALSE),
     ("maxConcurrency" :> 1) @@ ("maxItems" :> 1) @@ ("enableAnalytics" :> FALSE)}

InputObjects ==
    {a @@ b : a \in Opt("startUrls", StartUrlLists), b \in Settings}

Inputs ==
    {[isNull |-> TRUE, obj |-> EmptyObject]} \cup
    {[isNull |-> FALSE, obj |-> o] : o \in InputObjects}

\* const input = await Actor.getInput() || {}; destructuring with defaults
Option(key, default) ==
    IF input.isNull \/ key \notin DOMAIN input.obj THEN default ELSE input.obj[key]

startUrls        == Option("startUrls", <<>>)
maxConcurrency   == Option("maxConcurrency", DefaultMaxConcurrency)
maxItems         == Option("maxItems", DefaultMaxItems)
enableAnalytics  == Option("enableAnalytics", TRUE)
dataQualityCheck == Option("dataQualityCheck", TRUE)


(***************************************************************************)
(* Initial state                                                           *)
(***************************************************************************)
\* the Page of the puppeteer that is installed: main.js fixes no version, and
\* page.waitForTimeout exists up to puppeteer 21 only
PageMethods == {"waitForSelector", "waitForTimeout", "evaluate"}
Pages == {PageMethods, PageMethods \ {"waitForTimeout"}}

ZeroMetrics ==
    [requestsSucceeded |-> 0, requestsFailed |-> 0, averageResponseTime |-> <<0, 1>>]

MainInit ==
    /\ pc = "start"
    /\ input \in Inputs
    /\ totalProcessed = 0
    /\ successfulExtractions = 0
    /\ performanceMetrics = ZeroMetrics
    /\ req = [u \in URLs |-> [st |-> "none", retryCount |-> 0]]
    /\ pending = [u \in URLs |-> EmptyObject]
    /\ handledRequestsCount = 0
    /\ sink = EmptyBag
    /\ kvStore = EmptyObject
    /\ setValueCalls = 0
    /\ obs = [u \in URLs |-> [succeeded |-> 0, failed |-> 0]]
    /\ latencySum = 0
    /\ crawler = "none"
    /\ pendingReport = EmptyObject
    /\ page \in Pages

Init ==
    /\ MainInit
    /\ qdata = EmptyObject
    /\ qscore = EmptyObject

(***************************************************************************)
(* Actor.main: input validation and crawler set-up (main.js:16-51,142),    *)
(* one action per await and per outcome of the awaited call                *)
(***************************************************************************)
\* StartUrlsRejected with a defect: only !startUrls is tested, and a list is truthy
StartUrlsRejectedFalsyOnly == FALSE

\* if (!startUrls || startUrls.length === 0)
StartUrlsRejected == Len(startUrls) = 0

\* throw new Error('startUrls is required ...'): the run ends here
MainAbort ==
    /\ pc = "start"
    /\ StartUrlsRejected
    /\ pc' = "aborted"
    /\ UNCHANGED <<input, totalProcessed, successfulExtractions, performanceMetrics,
                   req, pending, handledRequestsCount, sink, kvStore, setValueCalls,
                   obs, latencySum, crawler, pendingReport, page, qdata, qscore>>

\* the start list is accepted: Actor.createProxyConfiguration(...) is called and
\* awaited; no counter is declared and no crawler exists yet
MainStart ==
    /\ pc = "start"
    /\ ~StartUrlsRejected
    /\ pc' = "createProxyConfiguration"
    /\ UNCHANGED <<input, totalProcessed, successfulExtractions, performanceMetrics,
                   req, pending, handledRequestsCount, sink, kvStore, setValueCalls,
                   obs, latencySum, crawler, pendingReport, page, qdata, qscore>>

\* the proxy configuration arrived: the counters are declared, the crawler is
\* constructed, crawler.addRequests(...) is called and awaited
CreateProxyConfigurationResolves ==
    /\ pc = "createProxyConfiguration"
    /\ totalProcessed' = 0
    /\ successfulExtractions' = 0
    /\ performanceMetrics' = ZeroMetrics
    /\ crawler' = "constructed"
    /\ pc' = "addRequests"
    /\ UNCHANGED <<input, req, pending, handledRequestsCount, sink, kvStore,
                   setValueCalls, obs, latencySum, pendingReport, page, qdata, qscore>>

\* the rejection leaves Actor.main: the run ends rejected, no crawler was made
CreateProxyConfigurationRejects ==
    /\ pc = "createProxyConfiguration"
    /\ pc' = "rejected"
    /\ UNCHANGED <<input, totalProcessed, successfulExtractions, performanceMetrics,
                   req, pending, handledRequestsCount, sink, kvStore, setValueCalls,
                   obs, latencySum, crawler, pendingReport, page, qdata, qscore>>

\* the start URLs are in the queue; crawler.run() is called and awaited
AddRequestsResolves ==
    /\ pc = "addRequests"
    /\ req' = [u \in URLs |->
                 IF \E i \in 1..Len(startUrls) : startUrls[i] = u
                 THEN [st |-> "queued", retryCount |-> 0]
                 ELSE req[u]]
    /\ crawler' = "running"
    /\ pc' = "crawling"
    /\ UNCHANGED <<input, totalProcessed, successfulExtractions, performanceMetrics,
                   pending, handledRequestsCount, sink, kvStore, setValueCalls,
                   obs, latencySum, pendingReport, page, qdata, qscore>>

\* the rejection leaves Actor.main: the run ends rejected, crawler.run() is
\* never called
AddRequestsRejects ==
    /\ pc = "addRequests"
    /\ pc' = "rejected"
    /\ UNCHANGED <<input, totalProcessed, successfulExtractions, performanceMetrics,
                   req, pending, handledRequestsCount, sink, kvStore, setValueCalls,
                   obs, latencySum, crawler, pendingReport, page, qdata, qscore>>

(***************************************************************************)
(* The crawler: scheduling, navigation, retries (main.js:46-51,145)        *)
(***************************************************************************)
HandlerPositions ==
    {"waitForSelector", "waitForTimeout", "evaluate", "pushData", "pushError"}

Running == {u \in URLs : req[u].st \in HandlerPositions \cup {"exhausted"}}

\* a request that reached its terminal outcome has left the queue
Left(outcome) == [st |-> outcome, retryCount |-> 0]

\* the crawler starts a queued request while it is under both ceilings
CanStart(u) ==
    /\ pc = "crawling"
    /\ req[u].st = "queued"
    /\ Cardinality(Running) < maxConcurrency
    /\ handledRequestsCount < maxItems

\* a rejected navigation or handler: retried maxRequestRetries times, then
\* handed to failedRequestHandler
AfterRejection(r) ==
    IF r.retryCount < maxRequestRetries
    THEN [st |-> "queued", retryCount |-> r.retryCount + 1]
    ELSE [st |-> "exhausted", retryCount |-> r.retryCount]

\* crawler.run() resolves: nothing is running and nothing more will be started
CrawlerFinished ==
    /\ Running = {}
    /\ \/ \A u \in URLs : req[u].st # "queued"
       \/ handledRequestsCount >= maxItems

\* page.goto fails before requestHandler is invoked
NavigationFails(u) ==
    /\ CanStart(u)
    /\ req' = [req EXCEPT ![u] = AfterRejection(req[u])]
    /\ UNCHANGED <<pc, input, totalProcessed, successfulExtractions, performanceMetrics,
                   pending, handledRequestsCount, sink, kvStore, setValueCalls,
                   obs, latencySum, crawler, pendingReport, page, qdata, qscore>>


(***************************************************************************)
(* requestHandler (main.js:53-133), one action per await                   *)
(***************************************************************************)
\* the catch block up to its await: main.js:119-129
Catch(u, message) ==
    /\ performanceMetrics' =
          [performanceMetrics EXCEPT !.requestsFailed = @ + 1]
    /\ pending' = [pending EXCEPT ![u] =
          [error |-> TRUE, url |-> u, errorMessage |-> message]]
    /\ req' = [req EXCEPT ![u].st = "pushError"]
    /\ obs' = [obs EXCEPT ![u].failed = @ + 1]
    /\ UNCHANGED <<pc, input, totalProcessed, successfulExtractions,
                   handledRequestsCount, sink, kvStore, setValueCalls,
                   latencySum, crawler, pendingReport, page, qdata, qscore>>

\* navigation succeeded; the handler runs to await page.waitForSelector('body')
HandlerStart(u) ==
    /\ CanStart(u)
    /\ req' = [req EXCEPT ![u].st = "waitForSelector"]
    /\ UNCHANGED <<pc, input, totalProcessed, successfulExtractions, performanceMetrics,
                   pending, handledRequestsCount, sink, kvStore, setValueCalls,
                   obs, latencySum, crawler, pendingReport, page, qdata, qscore>>

\* body appeared within 30 s; the handler goes on to await page.waitForTimeout(2000),
\* a call that throws into the catch block when the page has no such method
WaitForSelectorResolves(u) ==
    /\ req[u].st = "waitForSelector"
    /\ IF "waitForTimeout" \in page
       THEN /\ req' = [req EXCEPT ![u].st = "waitForTimeout"]
            /\ UNCHANGED <<pc, input, totalProcessed, successfulExtractions,
                           performanceMetrics, pending, handledRequestsCount, sink,
                           kvStore, setValueCalls, obs, latencySum, crawler,
                           pendingReport, page, qdata, qscore>>
       ELSE Catch(u, "page.waitForTimeout is not a function")

\* the page never became ready within the wait bound
WaitForSelectorRejects(u) ==
    /\ req[u].st = "waitForSelector"
    /\ Catch(u, "Waiting for selector body failed")

\* the 2 s went by; the handler goes on to await page.evaluate(...)
WaitForTimeoutResolves(u) ==
    /\ req[u].st = "waitForTimeout"
    /\ req' = [req EXCEPT ![u].st = "evaluate"]
    /\ UNCHANGED <<pc, input, totalProcessed, successfulExtractions, performanceMetrics,
                   pending, handledRequestsCount, sink, kvStore, setValueCalls,
                   obs, latencySum, crawler, pendingReport, page, qdata, qscore>>

\* the page went away during the pause
WaitForTimeoutRejects(u) ==
    /\ req[u].st = "waitForTimeout"
    /\ Catch(u, "Target closed")

\* module.exports, the lexical `this` of the arrow functions of main.js
ThisObject == EmptyObject

\* extractedData.analytics: main.js:92-98
Analytics(data) ==
    [contentLength      |-> TextLength(data.content.x),
     readingTime        |-> Ceil(Len(data.content.x), WordsPerMinute),
     hasMetaDescription |-> Truthy(data.metaDescription),
     headingStructure   |-> Len(data.headings.a),
     mediaRichness      |-> Frac(data.images.n, Max(data.links.n, 1))]

\* extractedData.metadata: main.js:102-107 (without the clock readings)
Metadata(u) == [sourceUrl |-> u, scraperVersion |-> "2.0.0"]

\* main.js:80-107: the record handed to Actor.pushData, or the error thrown.
\* this.validateDataQuality(...) is a call of a property of ThisObject.
Enrich(u, data) ==
    IF dataQualityCheck /\ "validateDataQuality" \notin DOMAIN ThisObject
    THEN [threw |-> TRUE, message |-> "this.validateDataQuality is not a function"]
    ELSE [threw |-> FALSE,
          value |->
            (IF dataQualityCheck
                THEN "dataQuality" :> validateDataQuality(data) ELSE EmptyObject)
            @@ (IF enableAnalytics
                THEN "analytics" :> Analytics(data) ELSE EmptyObject)
            @@ ("metadata" :> Metadata(u))
            @@ data]

\* page.evaluate returned the fields; the handler runs to await Actor.pushData
EvaluateResolves(u) ==
    /\ req[u].st = "evaluate"
    /\ LET r == Enrich(u, ExtractFields(u)) IN
       IF r.threw
       THEN Catch(u, r.message)
       ELSE /\ pending' = [pending EXCEPT ![u] = r.value]
            /\ req' = [req EXCEPT ![u].st = "pushData"]
            /\ UNCHANGED <<pc, input, totalProcessed, successfulExtractions,
                           performanceMetrics, handledRequestsCount, sink, kvStore,
                           setValueCalls, obs, latencySum, crawler, pendingReport, page, qdata, qscore>>

\* the DOM read failed: the page went away during page.evaluate
EvaluateRejects(u) ==
    /\ req[u].st = "evaluate"
    /\ Catch(u, "Target closed")

\* UpdateAverage with a defect: the old average is weighted by n instead of n - 1
UpdateAverageWeightN(average, n, latency) ==
    Frac(average[1] * n + latency * average[2], average[2] * n)

\* main.js:113-115, with n the already incremented requestsSucceeded
UpdateAverage(average, n, latency) ==
    Frac(average[1] * (n - 1) + latency * average[2], average[2] * n)

\* Actor.pushData([extractedData]) resolved: main.js:111-117 and 132
PushDataResolves(u) ==
    /\ req[u].st = "pushData"
    /\ \E latency \in Latencies :
          /\ performanceMetrics' =
                [performanceMetrics EXCEPT
                   !.requestsSucceeded = @ + 1,
                   !.averageResponseTime =
                       UpdateAverage(@, performanceMetrics.requestsSucceeded + 1, latency)]
          /\ latencySum' = latencySum + latency
    /\ sink' = sink (+) SetToBag({pending[u]})
    /\ successfulExtractions' = successfulExtractions + 1
    /\ totalProcessed' = totalProcessed + 1
    /\ pending' = [pending EXCEPT ![u] = EmptyObject]
    /\ req' = [req EXCEPT ![u] = Left("handled")]
    /\ handledRequestsCount' = handledRequestsCount + 1
    /\ obs' = [obs EXCEPT ![u].succeeded = @ + 1]
    /\ UNCHANGED <<pc, input, kvStore, setValueCalls, crawler, pendingReport, page, qdata, qscore>>

\* Actor.pushData([extractedData]) rejected: nothing was stored, the catch block runs
PushDataRejects(u) ==
    /\ req[u].st = "pushData"
    /\ Catch(u, "pushData failed")

\* Actor.pushData([{error: true, ...}]) resolved: main.js:132, the handler returns
PushErrorResolves(u) ==
    /\ req[u].st = "pushError"
    /\ sink' = sink (+) SetToBag({pending[u]})
    /\ totalProcessed' = totalProcessed + 1
    /\ pending' = [pending EXCEPT ![u] = EmptyObject]
    /\ req' = [req EXCEPT ![u] = Left("handled")]
    /\ handledRequestsCount' = handledRequestsCount + 1
    /\ UNCHANGED <<pc, input, successfulExtractions, performanceMetrics, kvStore,
                   setValueCalls, obs, latencySum, crawler, pendingReport, page, qdata, qscore>>

\* the pushData inside the catch block rejected: the handler itself rejects
PushErrorRejects(u) ==
    /\ req[u].st = "pushError"
    /\ pending' = [pending EXCEPT ![u] = EmptyObject]
    /\ req' = [req EXCEPT ![u] = AfterRejection(req[u])]
    /\ UNCHANGED <<pc, input, totalProcessed, successfulExtractions, performanceMetrics,
                   handledRequestsCount, sink, kvStore, setValueCalls,
                   obs, latencySum, crawler, pendingReport, page, qdata, qscore>>

(***************************************************************************)
(* failedRequestHandler (main.js:135-138)                                  *)
(***************************************************************************)
failedRequestHandler(u) ==
    /\ req[u].st = "exhausted"
    /\ performanceMetrics' =
          [performanceMetrics EXCEPT !.requestsFailed = @ + 1]
    /\ req' = [req EXCEPT ![u] = Left("failed")]
    /\ handledRequestsCount' = handledRequestsCount + 1
    /\ obs' = [obs EXCEPT ![u].failed = @ + 1]
    /\ UNCHANGED <<pc, input, totalProcessed, successfulExtractions, pending, sink,
                   kvStore, setValueCalls, latencySum, crawler, pendingReport, page, qdata, qscore>>

(***************************************************************************)
(* Actor.main: the final report (main.js:148-169)                          *)
(***************************************************************************)
\* FailureRate with a defect: the denominator leaves out the failed requests
FailureRateOverSucceeded(failed, succeeded) == Frac(failed * 100, Max(succeeded, 1))

\* main.js:152
FailureRate(failed, succeeded) == Frac(failed * 100, Max(succeeded + failed, 1))

finalReport ==
    [summary |->
        [totalProcessed        |-> totalProcessed,
         successfulExtractions |-> successfulExtractions,
         failureRate           |-> FailureRate(performanceMetrics.requestsFailed,
                                               performanceMetrics.requestsSucceeded),
         averageResponseTime   |-> Round(performanceMetrics.averageResponseTime)],
     configuration |->
        [maxItems         |-> maxItems,
         enableAnalytics  |-> enableAnalytics,
         dataQualityCheck |-> dataQualityCheck]]

\* crawler.run() rejects: the rejection leaves Actor.main, no report is built;
\* the handler runs in flight go on when the calls they await settle
RunRejects ==
    /\ pc = "crawling"
    /\ pc' = "rejected"
    /\ UNCHANGED <<input, totalProcessed, successfulExtractions, performanceMetrics,
                   req, pending, handledRequestsCount, sink, kvStore, setValueCalls,
                   obs, latencySum, crawler, pendingReport, page, qdata, qscore>>

\* crawler.run() resolved: the report is built, Actor.setValue(...) is called
\* and awaited
MainReport ==
    /\ pc = "crawling"
    /\ CrawlerFinished
    /\ pendingReport' = finalReport
    /\ setValueCalls' = setValueCalls + 1
    /\ pc' = "setValue"
    /\ UNCHANGED <<input, totalProcessed, successfulExtractions, performanceMetrics,
                   req, pending, handledRequestsCount, sink, kvStore, obs, latencySum,
                   crawler, page, qdata, qscore>>

\* the report is stored; Actor.main logs the summary and returns
SetValueResolves ==
    /\ pc = "setValue"
    /\ kvStore' = ("PERFORMANCE_REPORT" :> pendingReport) @@ kvStore
    /\ pc' = "done"
    /\ UNCHANGED <<input, totalProcessed, successfulExtractions, performanceMetrics,
                   req, pending, handledRequestsCount, sink, setValueCalls,
                   obs, latencySum, crawler, pendingReport, page, qdata, qscore>>

\* the rejection leaves Actor.main: the run ends rejected, nothing is stored
SetValueRejects ==
    /\ pc = "setValue"
    /\ pc' = "rejected"
    /\ UNCHANGED <<input, totalProcessed, successfulExtractions, performanceMetrics,
                   req, pending, handledRequestsCount, sink, kvStore, setValueCalls,
                   obs, latencySum, crawler, pendingReport, page, qdata, qscore>>

(***************************************************************************)
(* Specifications                                                          *)
(***************************************************************************)
Next ==
    \/ MainAbort
    \/ MainStart
    \/ CreateProxyConfigurationResolves
    \/ CreateProxyConfigurationRejects
    \/ AddRequestsResolves
    \/ AddRequestsRejects
    \/ RunRejects
    \/ MainReport
    \/ SetValueResolves
    \/ SetValueRejects
    \/ \E u \in URLs :
          \/ NavigationFails(u)
          \/ HandlerStart(u)
          \/ WaitForSelectorResolves(u)
          \/ WaitForSelectorRejects(u)
          \/ WaitForTimeoutResolves(u)
          \/ WaitForTimeoutRejects(u)
          \/ EvaluateResolves(u)
          \/ EvaluateRejects(u)
          \/ PushDataResolves(u)
          \/ PushDataRejects(u)
          \/ PushErrorResolves(u)
          \/ PushErrorRejects(u)
          \/ failedRequestHandler(u)

Spec == Init /\ [][Next]_vars


(***************************************************************************)
(* The scorer on its own: validateDataQuality applied to every record the  *)
(* Field Extractor can return                                              *)
(***************************************************************************)
QRecords ==
    [url             : {Href(1)},
     title           : {Str(""), Str("T")},
     content         : {Text(<<0>>), Text(<<3, 0, 2>>)},
     links           : {Num(n) : n \in 0..MaxCount},
     images          : {Num(n) : n \in 0..MaxCount},
     headings        : {Arr(<<>>), Arr(<<"h1">>)},
     metaDescription : {Str(""), Str("d")},
     timestamp       : {Str("iso")}]

QInit ==
    /\ MainInit
    /\ input.isNull
    /\ page = PageMethods
    /\ qdata \in QRecords
    /\ qscore = EmptyObject

QScore ==
    /\ qscore = EmptyObject
    /\ qscore' = validateDataQuality(qdata)
    /\ UNCHANGED <<mainVars, qdata>>

QNext == QScore

QSpec == QInit /\ [][QNext]_vars


(***************************************************************************)
(* Vocabulary of the claims                                                *)
(***************************************************************************)
Enqueued == {startUrls[i] : i \in 1..Len(startUrls)}

Terminal(u) == req[u].st \in {"handled", "failed"}

IsErrorRecord(r) == "error" \in DOMAIN r

RecordUrl(r) == IF IsErrorRecord(r) THEN r.url ELSE r.metadata.sourceUrl

\* how many records of the set S the sink holds, copies counted
CountIn(S) == BagCardinality([r \in S |-> sink[r]])

RecordsFor(u) == CountIn({r \in BagToSet(sink) : RecordUrl(r) = u})
ErrorRecordsFor(u) ==
    CountIn({r \in BagToSet(sink) : RecordUrl(r) = u /\ IsErrorRecord(r)})
ExtractedRecords == CountIn({r \in BagToSet(sink) : ~IsErrorRecord(r)})
ErrorRecords == CountIn({r \in BagToSet(sink) : IsErrorRecord(r)})

\* every record pushed or about to be pushed
KnownRecords ==
    BagToSet(sink) \cup {pending[u] : u \in {v \in URLs : pending[v] # EmptyObject}}

\* the error messages of a failed fetch, a failed DOM read and a failed sink write
EnvironmentFailures ==
    {"Waiting for selector body failed", "Target closed", "pushData failed"}

\* the error messages of a page on which page.evaluate did not get to return
\* its data, or whose record the sink refused
NoExtractionMessages ==
    EnvironmentFailures \cup {"page.waitForTimeout is not a function"}

requestsSucceeded == performanceMetrics.requestsSucceeded
requestsFailed == performanceMetrics.requestsFailed
averageResponseTime == performanceMetrics.averageResponseTime

Reported == "PERFORMANCE_REPORT" \in DOMAIN kvStore

(***************************************************************************)
(* C1: at the end of a run every processed URL (its handler returned, or   *)
(* it was handed to failedRequestHandler) has exactly one record in the    *)
(* sink.                                                                   *)
(***************************************************************************)
C1_ExactlyOneRecordPerProcessedUrl ==
    pc = "done" => \A u \in URLs : Terminal(u) => RecordsFor(u) = 1

(***************************************************************************)
(* C2: a page whose fetch and DOM extraction succeed yields one            *)
(* ExtractedRecord and no ErrorRecord, for each setting of the two         *)
(* toggles: an ErrorRecord is only ever produced by a failure of the       *)
(* fetch, of the DOM read or of the sink, or on a page whose extraction    *)
(* never began (no waitForTimeout method); an ExtractedRecord carries      *)
(* dataQuality iff dataQualityCheck and analytics iff enableAnalytics; and *)
(* with one start URL, both toggles on and no such failure the sink ends   *)
(* with one ExtractedRecord and the report shows totalProcessed = 1.       *)
(***************************************************************************)
C2_SuccessfulFetchYieldsExtractedRecord ==
    /\ \A r \in KnownRecords :
          IF IsErrorRecord(r)
          THEN r.errorMessage \in NoExtractionMessages
          ELSE /\ ("dataQuality" \in DOMAIN r) <=> dataQualityCheck
               /\ ("analytics" \in DOMAIN r) <=> enableAnalytics
    /\ (pc = "done" /\ Len(startUrls) = 1 /\ enableAnalytics /\ dataQualityCheck
          /\ req[1].st = "handled" /\ requestsFailed = 0)
       => /\ ExtractedRecords = 1
          /\ ErrorRecords = 0
          /\ kvStore["PERFORMANCE_REPORT"].summary.totalProcessed = 1

(***************************************************************************)
(* C3: with no startUrls (no input, no key, an empty list) the run ends    *)
(* with the configuration error before the crawler exists: nothing is      *)
(* enqueued, pushed or persisted and no counter moves.                     *)
(***************************************************************************)
C3_EmptyStartUrlsFailFast ==
    Len(startUrls) = 0 =>
        /\ pc \in {"start", "aborted"}
        /\ crawler = "none"
        /\ sink = EmptyBag
        /\ kvStore = EmptyObject
        /\ setValueCalls = 0
        /\ pendingReport = EmptyObject
        /\ \A u \in URLs : req[u].st = "none" /\ pending[u] = EmptyObject
        /\ handledRequestsCount = 0
        /\ totalProcessed = 0
        /\ successfulExtractions = 0
        /\ performanceMetrics = ZeroMetrics

C3_Witness ==
    /\ pc = "aborted"
    /\ ~input.isNull
    /\ "startUrls" \in DOMAIN input.obj
    /\ Len(startUrls) = 0

(***************************************************************************)
(* C4: over all handler invocations and the failedRequestHandler call made *)
(* for one request, the aggregator is hit exactly once: one success or one *)
(* failure, never both and never twice.                                    *)
(***************************************************************************)
C4_ExactlyOnePathPerRequest ==
    \A u \in URLs :
        /\ obs[u].succeeded + obs[u].failed <= 1
        /\ Terminal(u) => obs[u].succeeded + obs[u].failed = 1

(***************************************************************************)
(* C5: with a non-empty start list no error ends the run short of its      *)
(* report: Actor.main is never left by a rejection, and when the run ends  *)
(* the report has been persisted, exactly once, after the crawler finished *)
(* and every enqueued URL became terminal.  The item ceiling maxItems of   *)
(* the crawl is granted: URLs it leaves unprocessed are not held against   *)
(* the claim.                                                              *)
(***************************************************************************)
C5_NoErrorAbortsTheRun ==
    /\ Len(startUrls) > 0 => pc # "rejected"
    /\ pc = "done" =>
          /\ setValueCalls = 1
          /\ Reported
          /\ Running = {}
          /\ \/ \A u \in Enqueued : Terminal(u)
             \/ handledRequestsCount >= maxItems

(***************************************************************************)
(* C6: as seen through the counters a URL goes from pending to succeeded   *)
(* or failed once and stays there: a URL that has been counted is never    *)
(* counted again, in either counter, also when the request is retried.     *)
(***************************************************************************)
C6_CountedOnceAndForAll ==
    [][\A u \in URLs :
          obs[u].succeeded + obs[u].failed >= 1 => obs'[u] = obs[u]]_vars

(***************************************************************************)
(* C7: the failureRate of the persisted report is                          *)
(* requestsFailed / max(requestsSucceeded + requestsFailed, 1) * 100 of    *)
(* the counters at the end of the run, and the rate of every reachable     *)
(* pair of counters, (0, 0) included, lies in [0, 100].                    *)
(***************************************************************************)
C7_FailureRate ==
    /\ LET rate == FailureRate(requestsFailed, requestsSucceeded) IN
          /\ rate[2] > 0
          /\ 0 <= rate[1]
          /\ rate[1] <= 100 * rate[2]
    /\ Reported =>
          LET rate == kvStore["PERFORMANCE_REPORT"].summary.failureRate IN
          /\ rate[2] > 0
          /\ rate[1] * Max(requestsSucceeded + requestsFailed, 1)
                = 100 * requestsFailed * rate[2]

C7_Witness ==
    /\ Reported
    /\ requestsSucceeded >= 1
    /\ requestsFailed >= 1
    /\ kvStore["PERFORMANCE_REPORT"].summary.failureRate
          \notin {<<0, 1>>, <<100, 1>>}

(***************************************************************************)
(* C8: for every record given to validateDataQuality,                      *)
(* completeness + |missingFields| = totalFields, a key is in missingFields *)
(* exactly when its value is falsy or the empty string (so a count of 0 is *)
(* missing and an empty heading list is not), the other keys are the       *)
(* filled ones, and overall = completeness / totalFields is in [0, 1].     *)
(***************************************************************************)
SeqToSet(q) == {q[i] : i \in 1..Len(q)}

FalsyValues == {Str(""), Text(<<0>>), Num(0)}

C8_QualityScore ==
    qscore # EmptyObject =>
        LET missing == SeqToSet(qscore.missingFields)
            filled == DOMAIN qdata \ missing
        IN  /\ qscore.totalFields = Cardinality(DOMAIN qdata)
            /\ qscore.completeness + Len(qscore.missingFields) = qscore.totalFields
            /\ Cardinality(missing) = Len(qscore.missingFields)
            /\ missing = {k \in DOMAIN qdata : qdata[k] \in FalsyValues}
            /\ qscore.completeness = Cardinality(filled)
            /\ qscore.overall = <<qscore.completeness, qscore.totalFields>>
            /\ qscore.totalFields > 0
            /\ 0 <= qscore.completeness
            /\ qscore.completeness <= qscore.totalFields

C8_Witness ==
    /\ qscore # EmptyObject
    /\ qdata.links = Num(0)
    /\ qdata.headings = Arr(<<>>)
    /\ "links" \in SeqToSet(qscore.missingFields)
    /\ "headings" \notin SeqToSet(qscore.missingFields)
    /\ qscore.completeness < qscore.totalFields

(***************************************************************************)
(* C9: averageResponseTime and requestsSucceeded change only in the        *)
(* success step of requestHandler; every step that counts a failure adds   *)
(* one to requestsFailed and leaves both alone; and after k successes the  *)
(* stored average is the mean of the k latencies recorded, whatever the    *)
(* order in which the handlers completed.                                  *)
(***************************************************************************)
C9_AverageOnlyOnSuccess ==
    /\ [][(averageResponseTime' # averageResponseTime
             \/ requestsSucceeded' # requestsSucceeded)
          => /\ requestsSucceeded' = requestsSucceeded + 1
             /\ requestsFailed' = requestsFailed
             /\ \E u \in URLs : req[u].st = "pushData" /\ req'[u].st = "handled"]_vars
    /\ [][requestsFailed' # requestsFailed
          => /\ requestsFailed' = requestsFailed + 1
             /\ requestsSucceeded' = requestsSucceeded
             /\ averageResponseTime' = averageResponseTime]_vars
    /\ [](/\ averageResponseTime[2] > 0
          /\ averageResponseTime[1] * Max(requestsSucceeded, 1)
                = latencySum * averageResponseTime[2])

C9_Witness ==
    /\ requestsSucceeded = 2
    /\ latencySum = 1 + MaxLatency
    /\ requestsFailed >= 1
    /\ averageResponseTime = Frac(1 + MaxLatency, 2)

(***************************************************************************)
(* C10: in every state the counters agree with the sink:                   *)
(* successfulExtractions = requestsSucceeded = the ExtractedRecords        *)
(* pushed, totalProcessed <= the records pushed, and at the end of the run *)
(* totalProcessed = successfulExtractions + the ErrorRecords pushed and    *)
(* requestsSucceeded + requestsFailed = totalProcessed.                    *)
(***************************************************************************)
C10_CountersAgreeWithSink ==
    /\ successfulExtractions = requestsSucceeded
    /\ requestsSucceeded = ExtractedRecords
    /\ totalProcessed <= BagCardinality(sink)
    /\ pc = "done" =>
          /\ totalProcessed = successfulExtractions + ErrorRecords
          /\ requestsSucceeded + requestsFailed = totalProcessed

====
